---- MODULE Spec2Model ----
(***************************************************************************)
(* A model of the dist-sys-rs node: the message types of src/message.rs    *)
(* (EntityId, MsgPayload, MsgBody, MsgEnvelope, their text forms and       *)
(* MsgEnvelope::reply) and the request loop of src/main.rs.                *)
(*                                                                         *)
(* Conventions                                                             *)
(*   Option<T>      None is <<>>, Some(x) is <<x>>.                        *)
(*   u64 / u32      a machine word is the set of its set bit positions     *)
(*                  (bit 0 is the least significant): & is \cap, | is      *)
(*                  \cup, << moves positions up and drops those >= 64.     *)
(*   text           a string that the code takes apart (an identifier) is  *)
(*                  a sequence of one-character strings.                   *)
(*   JSON           an object is a function from its keys to its values.   *)
(***************************************************************************)
EXTENDS Integers, Sequences, FiniteSets, TLC

\* ------------------------------------------------------------------ bounds
\* Number of input lines the transport delivers before end-of-input.
MaxLines == 3

\* ------------------------------------------------------------------ Option
None == <<>>

Some(x) == <<x>>

Unwrap(o) == o[1]

\* ------------------------------------------------------------ machine words
WordBits == 0..63

\* The u64 holding the natural number n: bit 0 is n % 2, the others are
\* the bits of n \div 2, one position up.
RECURSIVE BitsOf(_)
BitsOf(n) ==
    IF n = 0 THEN {}
    ELSE (IF n % 2 = 1 THEN {0} ELSE {}) \cup {b + 1 : b \in BitsOf(n \div 2)}

\* w << k on a u64: bits shifted past bit 63 are lost.
Shl(w, k) == {b + k : b \in w} \cap WordBits

\* w >> k on a u64.
Shr(w, k) == {b - k : b \in {x \in w : x >= k}}

Mask_FFFFFFFF == 0..31

Mask_3 == {0, 1}

Mask_FFFFFFFC == 2..31

\* ---------------------------------------------------------------- EntityId
Client(id) == [kind |-> "Client", id |-> id]

Node(id) == [kind |-> "Node", id |-> id]

\* impl From<EntityId> for u64
EntityIdIntoU64(entity_id) == BitsOf(entity_id.id)

EntityIdIndex(entity_id) == entity_id.id

DigitChars == <<"0", "1", "2", "3", "4", "5", "6", "7", "8", "9">>

IsDigit(c) == \E d \in 1..10 : DigitChars[d] = c

DigitValue(c) == (CHOOSE d \in 1..10 : DigitChars[d] = c) - 1

\* The decimal text of a usize, as write!(f, "{}", id) produces it.
RECURSIVE FormatUsize(_)
FormatUsize(n) ==
    IF n < 10 THEN <<DigitChars[n + 1]>>
    ELSE Append(FormatUsize(n \div 10), DigitChars[(n % 10) + 1])

\* A variant of Display that writes every identifier as a node.
EntityIdFmt_node(entity_id) == <<"n">> \o FormatUsize(entity_id.id)

\* impl Display for EntityId
EntityIdFmt(entity_id) ==
    IF entity_id.kind = "Client" THEN <<"c">> \o FormatUsize(entity_id.id)
    ELSE <<"n">> \o FormatUsize(entity_id.id)

RECURSIVE DigitsValue(_)
DigitsValue(ds) ==
    IF Len(ds) = 0 THEN 0
    ELSE 10 * DigitsValue(SubSeq(ds, 1, Len(ds) - 1)) + DigitValue(ds[Len(ds)])

\* str::parse::<usize>: an optional leading "+", then one or more decimal
\* digits and nothing else.  The texts of the model are far shorter than the
\* 20 digits at which a usize overflows.
ParseUsize(t) ==
    LET digits == IF Len(t) > 0 /\ t[1] = "+" THEN Tail(t) ELSE t
    IN  IF Len(digits) > 0 /\ \A i \in 1..Len(digits) : IsDigit(digits[i])
        THEN [ok |-> TRUE, val |-> DigitsValue(digits)]
        ELSE [ok |-> FALSE, val |-> 0]

\* The characters that take more than one byte in UTF-8.
WideChars == {"é"}

ByteLen(c) == IF c \in WideChars THEN 2 ELSE 1

RECURSIVE StrByteLen(_)
StrByteLen(s) == IF Len(s) = 0 THEN 0 ELSE ByteLen(s[1]) + StrByteLen(Tail(s))

Ok(v) == [ok |-> TRUE, val |-> v, err |-> ""]

Err(e) == [ok |-> FALSE, val |-> <<>>, err |-> e]

\* impl FromStr for EntityId
EntityIdFromStr(s) ==
    IF StrByteLen(s) < 2 THEN Err("EntityId too short")
    ELSE IF ByteLen(s[1]) # 1 THEN Err("Invalid EntityId format")
    ELSE LET prefix == s[1]
             id == ParseUsize(Tail(s))
         IN  IF ~id.ok THEN Err("Invalid number for EntityId")
             ELSE IF prefix = "c" THEN Ok(Client(id.val))
             ELSE IF prefix = "n" THEN Ok(Node(id.val))
             ELSE Err("Invalid EntityId prefix")

\* -------------------------------------------------------------- MsgPayload
Payload_Init(node_id, node_ids) ==
    [type |-> "Init", node_id |-> node_id, node_ids |-> node_ids]

Payload_InitOk == [type |-> "InitOk"]

Payload_Echo(echo) == [type |-> "Echo", echo |-> echo]

Payload_EchoOk(echo) == [type |-> "EchoOk", echo |-> echo]

Payload_Generate == [type |-> "Generate"]

Payload_GenerateOk(id) == [type |-> "GenerateOk", id |-> id]

\* ------------------------------------------------- MsgBody and MsgEnvelope
MsgBody(msg_id, in_reply_to, payload) ==
    [msg_id |-> msg_id, in_reply_to |-> in_reply_to, payload |-> payload]

MsgEnvelope(src, dest, body) == [src |-> src, dest |-> dest, body |-> body]

\* A variant of reply that forgets the role swap.
reply_noswap(self, msg_id, payload) ==
    MsgEnvelope(self.src, self.dest,
                MsgBody(Some(msg_id), self.body.msg_id, payload))

\* MsgEnvelope::reply
reply(self, msg_id, payload) ==
    MsgEnvelope(self.dest, self.src,
                MsgBody(Some(msg_id), self.body.msg_id, payload))

\* ------------------------------------------------------- the JSON wire form
\* A line of text is either the text of a JSON value or not JSON at all.
\* The JSON values of the model carry, under each key, a value of the JSON
\* type the key's Rust field expects; what can be wrong with an object is a
\* missing key, an unknown tag, or an identifier text that does not parse.
JsonText(value) == [syntax |-> "json", value |-> value]

NotJson == [syntax |-> "invalid", value |-> <<>>]

EmptyText == [syntax |-> "empty", value |-> <<>>]

EmptyObject == <<>>

Field(key, value) == key :> value

\* #[serde(skip_serializing_if = "Option::is_none")]
OptionalField(key, opt) == IF opt = None THEN EmptyObject ELSE key :> Unwrap(opt)

\* The characters serde_json writes as an escape sequence inside a string:
\* the quote, the backslash and the control characters.
EscapedChars == {"\"", "\\", "\n"}

\* A string value in JSON text: its characters, and whether the text between
\* the quotes holds an escape sequence.  serde_json hands a string without an
\* escape to the visitor as a slice of the input (visit_borrowed_str) and a
\* string with one as a decoded copy (visit_str).
JsonString(text) ==
    [text |-> text,
     escapes |-> \E i \in 1..Len(text) : text[i] \in EscapedChars]

\* <String as Deserialize>: takes the slice or the copy.
DeserializeString(string) == Ok(string.text)

\* <&'de str as Deserialize>: its visitor has visit_borrowed_str only, so a
\* decoded copy is refused.
DeserializeBorrowedStr(string) ==
    IF string.escapes
    THEN Err("invalid type: string, expected a borrowed string")
    ELSE Ok(string.text)

SerializeIds(ids) == [i \in 1..Len(ids) |-> EntityIdFmt(ids[i])]

\* #[derive(Serialize)] #[serde(tag = "type", rename_all = "snake_case")]
SerializePayload(payload) ==
    CASE payload.type = "Init" ->
            Field("type", "init")
            @@ Field("node_id", EntityIdFmt(payload.node_id))
            @@ Field("node_ids", SerializeIds(payload.node_ids))
      [] payload.type = "InitOk" -> Field("type", "init_ok")
      [] payload.type = "Echo" ->
            Field("type", "echo")
            @@ Field("echo", JsonString(payload.echo))
      [] payload.type = "EchoOk" ->
            Field("type", "echo_ok")
            @@ Field("echo", JsonString(payload.echo))
      [] payload.type = "Generate" -> Field("type", "generate")
      [] payload.type = "GenerateOk" ->
            Field("type", "generate_ok") @@ Field("id", payload.id)

\* #[derive(Serialize)] for MsgBody: the payload is flattened into the body.
SerializeBody(body) ==
    OptionalField("msg_id", body.msg_id)
    @@ OptionalField("in_reply_to", body.in_reply_to)
    @@ SerializePayload(body.payload)

\* #[derive(Serialize)] for MsgEnvelope
SerializeEnvelope(envelope) ==
    Field("src", EntityIdFmt(envelope.src))
    @@ Field("dest", EntityIdFmt(envelope.dest))
    @@ Field("body", SerializeBody(envelope.body))

\* serde_json::to_string(&response)
to_string(envelope) == JsonText(SerializeEnvelope(envelope))

HasKey(object, key) == key \in DOMAIN object

\* Option<usize> field of a derived Deserialize: absent is None.
DeserializeOptional(object, key) ==
    IF HasKey(object, key) THEN Some(object[key]) ELSE None

DeserializeIds(texts) ==
    LET parsed == [i \in 1..Len(texts) |-> EntityIdFromStr(texts[i])]
    IN  IF \A i \in 1..Len(texts) : parsed[i].ok
        THEN Ok([i \in 1..Len(texts) |-> parsed[i].val])
        ELSE Err("invalid EntityId in sequence")

\* #[derive(Deserialize)] #[serde(tag = "type", rename_all = "snake_case")]
DeserializePayload(object) ==
    IF ~HasKey(object, "type") THEN Err("missing field type")
    ELSE LET tag == object["type"] IN
    CASE tag = "init" ->
            IF ~HasKey(object, "node_id") THEN Err("missing field node_id")
            ELSE IF ~HasKey(object, "node_ids")
            THEN Err("missing field node_ids")
            ELSE LET node_id == EntityIdFromStr(object["node_id"])
                     node_ids == DeserializeIds(object["node_ids"])
                 IN  IF ~node_id.ok THEN node_id
                     ELSE IF ~node_ids.ok THEN node_ids
                     ELSE Ok(Payload_Init(node_id.val, node_ids.val))
      [] tag = "init_ok" -> Ok(Payload_InitOk)
      [] tag = "echo" ->
            IF ~HasKey(object, "echo") THEN Err("missing field echo")
            ELSE LET echo == DeserializeBorrowedStr(object["echo"])
                 IN  IF ~echo.ok THEN echo ELSE Ok(Payload_Echo(echo.val))
      [] tag = "echo_ok" ->
            IF ~HasKey(object, "echo") THEN Err("missing field echo")
            ELSE LET echo == DeserializeString(object["echo"])
                 IN  Ok(Payload_EchoOk(echo.val))
      [] tag = "generate" -> Ok(Payload_Generate)
      [] tag = "generate_ok" ->
            IF ~HasKey(object, "id") THEN Err("missing field id")
            ELSE Ok(Payload_GenerateOk(object["id"]))
      [] OTHER -> Err("unknown variant")

\* #[derive(Deserialize)] for MsgBody
DeserializeBody(object) ==
    LET payload == DeserializePayload(object)
    IN  IF ~payload.ok THEN payload
        ELSE Ok(MsgBody(DeserializeOptional(object, "msg_id"),
                        DeserializeOptional(object, "in_reply_to"),
                        payload.val))

\* #[derive(Deserialize)] for MsgEnvelope
DeserializeEnvelope(object) ==
    IF ~HasKey(object, "src") THEN Err("missing field src")
    ELSE IF ~HasKey(object, "dest") THEN Err("missing field dest")
    ELSE IF ~HasKey(object, "body") THEN Err("missing field body")
    ELSE LET src == EntityIdFromStr(object["src"])
             dest == EntityIdFromStr(object["dest"])
             body == DeserializeBody(object["body"])
         IN  IF ~src.ok THEN src
             ELSE IF ~dest.ok THEN dest
             ELSE IF ~body.ok THEN body
             ELSE Ok(MsgEnvelope(src.val, dest.val, body.val))

\* serde_json::from_str::<MsgEnvelope>(&buffer)
from_str(text) ==
    IF text.syntax # "json" THEN Err("expected value")
    ELSE DeserializeEnvelope(text.value)

\* ---------------------------------------------------- unique-id generation
\* A variant that places the clock two bits too low.
GenerateId_shift30(now, node_id, random_part) ==
    Shl(now \cap Mask_FFFFFFFF, 30)
    \cup Shl(node_id \cap Mask_3, 30)
    \cup (random_part \cap Mask_FFFFFFFC)

\* (now & 0xFFFFFFFF) << 32 | (node_id & 0x3) << 30
\*                          | (random_part as u64 & 0xFFFFFFFC)
GenerateId(now, node_id, random_part) ==
    Shl(now \cap Mask_FFFFFFFF, 32)
    \cup Shl(node_id \cap Mask_3, 30)
    \cup (random_part \cap Mask_FFFFFFFC)

\* StdRng::seed_from_u64(seed): a generator is its seed and the number of
\* values drawn from it so far.
SeedFromU64(seed) == [seed |-> seed, draws |-> 0]

\* ------------------------------------------------------------------ inputs
\* The src, dest and msg_id of the messages the transport delivers.
Headers ==
    { [src |-> Client(1), dest |-> Node(1), msg_id |-> Some(7)],
      [src |-> Client(2), dest |-> Node(1), msg_id |-> None],
      [src |-> Client(1), dest |-> Node(2), msg_id |-> Some(8)] }

EchoTexts == {<<"h", "e", "l", "l", "o">>}

\* An echo text with a quote in it, which JSON writes as an escape.
QuotedText == <<"a", "\"", "b">>

InitPayloads ==
    { Payload_Init(Node(1), <<Node(1), Node(6)>>),
      Payload_Init(Node(6), <<Node(6)>>) }

RequestPayloads ==
    InitPayloads \cup {Payload_Echo(t) : t \in EchoTexts}
    \cup {Payload_Generate}

ReplyOnlyPayloads ==
    {Payload_InitOk} \cup {Payload_EchoOk(t) : t \in EchoTexts}
    \cup {Payload_GenerateOk({0, 33})}

\* The envelopes the transport may deliver: requests, and messages of the
\* reply-only kinds (which carry an in_reply_to).
Envelopes ==
    {MsgEnvelope(h.src, h.dest, MsgBody(h.msg_id, None, p)) :
        h \in Headers, p \in RequestPayloads}
    \cup {MsgEnvelope(Node(2), Node(1), MsgBody(None, Some(1), p)) :
        p \in ReplyOnlyPayloads}
    \cup {MsgEnvelope(Client(1), Node(1),
                       MsgBody(Some(7), None, Payload_Echo(QuotedText))),
          MsgEnvelope(Node(2), Node(1),
                      MsgBody(None, Some(1), Payload_EchoOk(QuotedText)))}

\* Lines that do not decode: not JSON, an unknown tag, a missing required
\* field, an identifier that does not parse, a missing body.
BadLines ==
    { NotJson,
      JsonText(Field("src", <<"c", "1">>) @@ Field("dest", <<"n", "1">>)
               @@ Field("body", Field("type", "read") @@ Field("msg_id", 7))),
      JsonText(Field("src", <<"c", "1">>) @@ Field("dest", <<"n", "1">>)
               @@ Field("body", Field("type", "echo") @@ Field("msg_id", 7))),
      JsonText(Field("src", <<"x", "1">>) @@ Field("dest", <<"n", "1">>)
               @@ Field("body", Field("type", "generate"))),
      JsonText(Field("src", <<"c", "1">>) @@ Field("dest", <<"n", "1">>)) }

Lines == {to_string(e) : e \in Envelopes} \cup BadLines

\* Readings of the system clock, in seconds since the epoch, as u64; the
\* second one does not fit in 32 bits.  The clock is taken to be at or after
\* the epoch, so that duration_since(UNIX_EPOCH) succeeds.
Clocks == {{3, 31}, {0, 3, 35}}

\* Values next_u32 may return.
RandOutputs == {{2, 5}, {0, 2, 5}, {7, 31}}

\* ------------------------------------------------------------------- state
VARIABLES
    pc,          \* "read", "dispatch", "exited", "failed" or "panicked"
    msg_id,      \* main: let mut msg_id
    buffer,      \* main: let mut buffer
    my_node_id,  \* main: let mut my_node_id
    num_nodes,   \* main: let mut num_nodes
    rng,         \* main: let mut rng
    now,         \* the last reading of the system clock
    stdout,      \* the lines printed so far
    panic,       \* the panic message, once the process has panicked
    lines_read,  \* the number of lines read from stdin
    received,    \* the envelopes decoded so far, in order
    codec,       \* an identifier or a text, and what Display and FromStr
                 \* made of it
    nodes,       \* the state of two separate runs of the program
    stream       \* the values next_u32 has returned, by seed and position

vars == <<pc, msg_id, buffer, my_node_id, num_nodes, rng, now, stdout, panic,
          lines_read, received, codec, nodes, stream>>

\* The state of one run: the variables of main that the Init and Generate
\* arms read and write, whether the run has panicked, and what it generated.
FreshNode ==
    [my_node_id |-> None, num_nodes |-> 0, rng |-> None, panicked |-> FALSE,
     generated |-> <<>>]

NodeNames == {"a", "b"}

NoCodec == [text |-> None, entity |-> None, formatted |-> None,
            parsed |-> None]

\* A variant of the initial state whose counter starts at 0.
Init_zero ==
    /\ pc = "read"
    /\ msg_id = 0
    /\ buffer = EmptyText
    /\ my_node_id = None
    /\ num_nodes = 0
    /\ rng = None
    /\ now = {}
    /\ stdout = <<>>
    /\ panic = None
    /\ lines_read = 0
    /\ received = <<>>
    /\ codec = NoCodec
    /\ nodes = [name \in NodeNames |-> FreshNode]
    /\ stream = <<>>

\* main.rs lines 10-14
Init ==
    /\ pc = "read"
    /\ msg_id = 1
    /\ buffer = EmptyText
    /\ my_node_id = None
    /\ num_nodes = 0
    /\ rng = None
    /\ now = {}
    /\ stdout = <<>>
    /\ panic = None
    /\ lines_read = 0
    /\ received = <<>>
    /\ codec = NoCodec
    /\ nodes = [name \in NodeNames |-> FreshNode]
    /\ stream = <<>>

\* stdin().read_line(&mut buffer) returns a line.
ReadLine ==
    /\ pc = "read"
    /\ lines_read < MaxLines
    /\ \E line \in Lines : buffer' = line
    /\ lines_read' = lines_read + 1
    /\ pc' = "dispatch"
    /\ UNCHANGED <<msg_id, my_node_id, num_nodes, rng, now, stdout, panic,
                   received>>
    /\ UNCHANGED <<codec, nodes, stream>>

\* A variant that answers the end of input with a line of output.
ReadEof_reply ==
    /\ pc = "read"
    /\ pc' = "exited"
    /\ stdout' = Append(stdout, EmptyText)
    /\ UNCHANGED <<msg_id, buffer, my_node_id, num_nodes, rng, now, panic,
                   lines_read, received>>
    /\ UNCHANGED <<codec, nodes, stream>>

\* read_line returns 0: end of input, break and return Ok(()).
ReadEof ==
    /\ pc = "read"
    /\ pc' = "exited"
    /\ UNCHANGED <<msg_id, buffer, my_node_id, num_nodes, rng, now, stdout,
                   panic, lines_read, received>>
    /\ UNCHANGED <<codec, nodes, stream>>

\* read_line returns an error (an I/O error, or input that is not UTF-8):
\* the ? operator returns it from main.
ReadError ==
    /\ pc = "read"
    /\ pc' = "failed"
    /\ UNCHANGED <<msg_id, buffer, my_node_id, num_nodes, rng, now, stdout,
                   panic, lines_read, received>>
    /\ UNCHANGED <<codec, nodes, stream>>

\* let parsed = serde_json::from_str::<MsgEnvelope>(&buffer): the decoded
\* line, when a line is waiting to be dispatched and it decodes.
Decoded ==
    IF pc # "dispatch" THEN {}
    ELSE {parsed.val : parsed \in {result \in {from_str(buffer)} : result.ok}}

Panic(message) ==
    /\ pc' = "panicked"
    /\ panic' = Some(message)
    /\ UNCHANGED <<msg_id, buffer, stdout>>

\* A variant that drops a line that does not decode and reads on.
DecodeFail_skip ==
    /\ pc = "dispatch"
    /\ Decoded = {}
    /\ pc' = "read"
    /\ buffer' = EmptyText
    /\ UNCHANGED <<msg_id, stdout, panic, my_node_id, num_nodes, rng, now,
                   lines_read, received>>
    /\ UNCHANGED <<codec, nodes, stream>>

\* from_str(..).unwrap() on a line that does not decode.
DecodeFail ==
    /\ pc = "dispatch"
    /\ Decoded = {}
    /\ Panic("called Result::unwrap() on an Err value")
    /\ UNCHANGED <<my_node_id, num_nodes, rng, now, lines_read, received>>
    /\ UNCHANGED <<codec, nodes, stream>>

\* A variant that prints the response and keeps the counter.
Respond_keep(response) ==
    /\ stdout' = Append(stdout, to_string(response))
    /\ msg_id' = msg_id
    /\ buffer' = EmptyText
    /\ pc' = "read"
    /\ panic' = panic

\* A variant that takes the next counter value and prints nothing.
Respond_silent(response) ==
    /\ stdout' = stdout
    /\ msg_id' = msg_id + 1
    /\ buffer' = EmptyText
    /\ pc' = "read"
    /\ panic' = panic

\* main.rs lines 59-62: print the response, msg_id += 1, buffer.clear().
Respond(response) ==
    /\ stdout' = Append(stdout, to_string(response))
    /\ msg_id' = msg_id + 1
    /\ buffer' = EmptyText
    /\ pc' = "read"
    /\ panic' = panic

\* A variant of the match that only takes messages addressed to the node
\* once the node knows its identity.
Matches_addressed(request, types) ==
    /\ request.body.payload.type \in types
    /\ IF my_node_id = None THEN TRUE
       ELSE request.dest = Unwrap(my_node_id)
    /\ received' = Append(received, request)
    /\ lines_read' = lines_read
    /\ UNCHANGED <<codec, nodes, stream>>

\* match parsed.body.payload: the arm for the payloads of the given types.
Matches(request, types) ==
    /\ request.body.payload.type \in types
    /\ received' = Append(received, request)
    /\ lines_read' = lines_read
    /\ UNCHANGED <<codec, nodes, stream>>

\* A variant of the Init arm that keeps the identity it already has.
InitArm_keep(request) ==
    /\ Matches(request, {"Init"})
    /\ my_node_id' = my_node_id
    /\ num_nodes' = Len(request.body.payload.node_ids)
    /\ Respond(reply(request, msg_id, Payload_InitOk))
    /\ UNCHANGED <<rng, now>>

\* MsgPayload::Init { node_id, ref node_ids } => ...
InitArm(request) ==
    /\ Matches(request, {"Init"})
    /\ my_node_id' = Some(request.body.payload.node_id)
    /\ num_nodes' = Len(request.body.payload.node_ids)
    /\ Respond(reply(request, msg_id, Payload_InitOk))
    /\ UNCHANGED <<rng, now>>

\* A variant of the Echo arm that answers with a fixed text.
EchoArm_fixed(request) ==
    /\ Matches(request, {"Echo"})
    /\ Respond(reply(request, msg_id, Payload_EchoOk(<<>>)))
    /\ UNCHANGED <<my_node_id, num_nodes, rng, now>>

\* MsgPayload::Echo { echo } => ...
EchoArm(request) ==
    /\ Matches(request, {"Echo"})
    /\ Respond(reply(request, msg_id,
                     Payload_EchoOk(request.body.payload.echo)))
    /\ UNCHANGED <<my_node_id, num_nodes, rng, now>>

\* main.rs lines 39-41: seed the generator on first use.
Seeded(node_id, generator) ==
    IF node_id # None /\ generator = None
    THEN Some(SeedFromU64(EntityIdIntoU64(Unwrap(node_id))))
    ELSE generator

SeededRng == Seeded(my_node_id, rng)

\* MsgPayload::Generate, when the identity and the generator are there.
GenerateArm(request) ==
    /\ Matches(request, {"Generate"})
    /\ my_node_id # None /\ SeededRng # None
    /\ \E clock \in Clocks, random_part \in RandOutputs :
          /\ now' = clock
          /\ rng' = Some([Unwrap(SeededRng) EXCEPT !.draws = @ + 1])
          /\ Respond(reply(request, msg_id,
                Payload_GenerateOk(
                    GenerateId(clock, EntityIdIntoU64(Unwrap(my_node_id)),
                               random_part))))
    /\ UNCHANGED <<my_node_id, num_nodes>>

\* A variant that answers a Generate before Init with id 0.
GeneratePanic_reply(request) ==
    /\ Matches(request, {"Generate"})
    /\ ~(my_node_id # None /\ SeededRng # None)
    /\ rng' = SeededRng
    /\ Respond(reply(request, msg_id, Payload_GenerateOk({})))
    /\ UNCHANGED <<my_node_id, num_nodes, now>>

\* MsgPayload::Generate, otherwise: panic!.
GeneratePanic(request) ==
    /\ Matches(request, {"Generate"})
    /\ ~(my_node_id # None /\ SeededRng # None)
    /\ rng' = SeededRng
    /\ Panic("Received Generate message before Init")
    /\ UNCHANGED <<my_node_id, num_nodes, now>>

\* A variant of the default arm that acknowledges instead of panicking.
UnexpectedArm_ack(request) ==
    /\ Matches(request, {"InitOk", "EchoOk", "GenerateOk"})
    /\ Respond(reply(request, msg_id, Payload_InitOk))
    /\ UNCHANGED <<my_node_id, num_nodes, rng, now>>

\* _ => panic!("Unexpected message type")
UnexpectedArm(request) ==
    /\ Matches(request, {"InitOk", "EchoOk", "GenerateOk"})
    /\ Panic("Unexpected message type")
    /\ UNCHANGED <<my_node_id, num_nodes, rng, now>>

Next ==
    \/ ReadLine
    \/ ReadEof
    \/ ReadError
    \/ DecodeFail
    \/ \E request \in Decoded : InitArm(request)
    \/ \E request \in Decoded : EchoArm(request)
    \/ \E request \in Decoded : GenerateArm(request)
    \/ \E request \in Decoded : GeneratePanic(request)
    \/ \E request \in Decoded : UnexpectedArm(request)

Spec == Init /\ [][Next]_vars

\* One pass of read_line: it returns a line, the end of input or an error.
Read == ReadLine \/ ReadEof \/ ReadError

\* The rest of the loop body for the line that was read: the match on the
\* decoded request, or the panic of the unwrap.
Handle ==
    \/ \E request \in Decoded :
          \/ InitArm(request)
          \/ EchoArm(request)
          \/ GenerateArm(request)
          \/ GeneratePanic(request)
          \/ UnexpectedArm(request)
    \/ DecodeFail

\* The process is sequential and always takes its next step: a read returns
\* and a line that was read is handled.  Read \/ Handle is Next.
FairSpec == Spec /\ WF_vars(Read) /\ WF_vars(Handle)

\* ------------------------------------------------ identifiers on their own
\* The longest text handed to FromStr, and the largest index handed to
\* Display.
MaxTextLen == 3

MaxIndex == 120

IdChars == {"c", "n", "x", "0", "1", "-", "+", "é"}

Texts == UNION {[1..len -> IdChars] : len \in 0..MaxTextLen}

EntityIds == {Client(id) : id \in 0..MaxIndex} \cup {Node(id) : id \in 0..MaxIndex}

main_vars == <<pc, msg_id, buffer, my_node_id, num_nodes, rng, now, stdout,
               panic, lines_read, received>>

\* A text to parse, or an identifier to format and parse back.
IdInit ==
    /\ pc = "read"
    /\ msg_id = 1
    /\ buffer = EmptyText
    /\ my_node_id = None
    /\ num_nodes = 0
    /\ rng = None
    /\ now = {}
    /\ stdout = <<>>
    /\ panic = None
    /\ lines_read = 0
    /\ received = <<>>
    /\ codec \in {[NoCodec EXCEPT !.text = Some(text)] : text \in Texts}
                 \cup {[NoCodec EXCEPT !.entity = Some(entity_id)] :
                          entity_id \in EntityIds}
    /\ nodes = [name \in NodeNames |-> FreshNode]
    /\ stream = <<>>

\* entity_id.to_string(), through impl Display
FormatId ==
    /\ codec.entity # None
    /\ codec.formatted = None
    /\ codec' = [codec EXCEPT
                    !.formatted = Some(EntityIdFmt(Unwrap(codec.entity)))]
    /\ UNCHANGED <<main_vars, nodes, stream>>

\* text.parse::<EntityId>(), through impl FromStr
ParseText ==
    /\ codec.text # None
    /\ codec.parsed = None
    /\ codec' = [codec EXCEPT
                    !.parsed = Some(EntityIdFromStr(Unwrap(codec.text)))]
    /\ UNCHANGED <<main_vars, nodes, stream>>

\* entity_id.to_string().parse::<EntityId>()
ParseFormatted ==
    /\ codec.formatted # None
    /\ codec.parsed = None
    /\ codec' = [codec EXCEPT
                    !.parsed = Some(EntityIdFromStr(Unwrap(codec.formatted)))]
    /\ UNCHANGED <<main_vars, nodes, stream>>

IdNext ==
    \/ FormatId
    \/ ParseText
    \/ ParseFormatted

IdSpec == IdInit /\ [][IdNext]_vars

\* ------------------------------------------- two runs of the same program
\* The number of ids the two runs generate, taken together.
MaxGenerates == 2

Generated == Len(nodes["a"].generated) + Len(nodes["b"].generated)

\* A variant of the generator that is not a function of its seed.
NextU32_entropy(generator, outputs) == RandOutputs

\* rng.next_u32(): a generator seeded with seed_from_u64 is deterministic, so
\* the value at a position of the stream of a seed is the same in every run.
\* The first run to reach a position finds any value there.
NextU32(generator, outputs) ==
    LET position == <<generator.seed, generator.draws>>
    IN  IF position \in DOMAIN outputs THEN {outputs[position]}
        ELSE RandOutputs

\* The Init arm of one run.
TwinInitArm(name) ==
    /\ ~nodes[name].panicked
    /\ \E payload \in InitPayloads :
          nodes' = [nodes EXCEPT
                      ![name].my_node_id = Some(payload.node_id),
                      ![name].num_nodes = Len(payload.node_ids)]
    /\ UNCHANGED <<main_vars, codec, stream>>

\* The Generate arm of one run, when the identity is there.
TwinGenerateArm(name) ==
    LET node == nodes[name]
        seeded == Seeded(node.my_node_id, node.rng)
    IN  /\ ~node.panicked
        /\ Generated < MaxGenerates
        /\ node.my_node_id # None /\ seeded # None
        /\ \E clock \in Clocks,
              random_part \in NextU32(Unwrap(seeded), stream) :
              LET generator == Unwrap(seeded)
                  node_id == Unwrap(node.my_node_id)
              IN  /\ stream' = (<<generator.seed, generator.draws>>
                                  :> random_part) @@ stream
                  /\ nodes' = [nodes EXCEPT
                        ![name].rng =
                            Some([generator EXCEPT !.draws = @ + 1]),
                        ![name].generated = Append(@,
                            [now |-> clock,
                             node_id |-> node_id,
                             random_part |-> random_part,
                             id |-> GenerateId(clock,
                                       EntityIdIntoU64(node_id),
                                       random_part)])]
        /\ UNCHANGED <<main_vars, codec>>

\* The Generate arm of one run, otherwise: panic!.
TwinGeneratePanic(name) ==
    LET node == nodes[name]
    IN  /\ ~node.panicked
        /\ ~(node.my_node_id # None
             /\ Seeded(node.my_node_id, node.rng) # None)
        /\ nodes' = [nodes EXCEPT ![name].panicked = TRUE]
        /\ UNCHANGED <<main_vars, codec, stream>>

TwinNext ==
    \/ \E name \in NodeNames : TwinInitArm(name)
    \/ \E name \in NodeNames : TwinGenerateArm(name)
    \/ \E name \in NodeNames : TwinGeneratePanic(name)

TwinSpec == Init /\ [][TwinNext]_vars

\* ------------------------------------------------------------- properties
Last(seq) == seq[Len(seq)]

\* The i-th printed line, as a reader of stdout decodes it.
Printed(i) == from_str(stdout[i]).val

PrintedType(i) == Printed(i).body.payload.type

\* The msg_id of the i-th printed line, read from its msg_id field.
PrintedMsgId(i) == DeserializeOptional(stdout[i].value.body, "msg_id")

Ready == my_node_id # None

\* A step that prints a line.
Emits == Len(stdout') = Len(stdout) + 1

\* The line such a step prints, as a reader of stdout decodes it.
LastPrinted == from_str(Last(stdout')).val

\* The line waiting to be dispatched decodes to a payload of one of the types.
Pending(types) ==
    \E request \in Decoded : request.body.payload.type \in types

\* A step that dispatches a decoded message with a payload of one of the
\* types; the message is then the last of received'.
Handles(types) ==
    /\ Len(received') = Len(received) + 1
    /\ Last(received').body.payload.type \in types

\* C1: every reply the dispatcher prints has src equal to the request's dest,
\* dest equal to the request's src, msg_id equal to Some(k) for the counter
\* value k it was built with, and in_reply_to equal to the request's msg_id
\* (absent when the request carried none).
C1_ReplyInvariant ==
    [][Emits =>
        LET printed == LastPrinted
        IN  /\ printed.src = Last(received').dest
            /\ printed.dest = Last(received').src
            /\ printed.body.msg_id = Some(msg_id)
            /\ printed.body.in_reply_to = Last(received').body.msg_id]_vars

\* Two replies were printed, one to a request without msg_id and one to a
\* request with a msg_id.
C1_Witness ==
    \E i, j \in 1..Len(stdout) :
        /\ received[i].body.msg_id = None
        /\ Printed(i).body.in_reply_to = None
        /\ received[j].body.msg_id # None
        /\ Printed(j).body.in_reply_to = received[j].body.msg_id

\* C2: the msg_id values of the printed replies are strictly increasing,
\* whatever the payloads of the requests.
C2_SequenceMonotonic ==
    /\ \A i \in 1..Len(stdout) : PrintedMsgId(i) # None
    /\ \A i, j \in 1..Len(stdout) :
          i < j => Unwrap(PrintedMsgId(i)) < Unwrap(PrintedMsgId(j))

\* Replies to an init, an echo and a generate were printed.
C2_Witness ==
    /\ Len(stdout) = 3
    /\ {PrintedType(i) : i \in 1..3} = {"InitOk", "EchoOk", "GenerateOk"}

ReplyTypeFor(type) ==
    CASE type = "Init" -> "InitOk"
      [] type = "Echo" -> "EchoOk"
      [] type = "Generate" -> "GenerateOk"
      [] OTHER -> "none"

C4_GenerateBeforeInitFatal ==
    [][/\ (Handles({"Generate"}) /\ ~Ready) =>
            /\ pc' = "panicked"
            /\ panic' = Some("Received Generate message before Init")
            /\ stdout' = stdout
       /\ pc = "panicked" => UNCHANGED vars]_vars

\* The node panicked on a generate after it had answered an echo while
\* still without identity.
C4_Witness ==
    /\ pc = "panicked"
    /\ panic = Some("Received Generate message before Init")
    /\ Last(received).body.payload.type = "Generate"
    /\ Len(stdout) = 1
    /\ my_node_id = None

\* C5: a decoded message of a reply-only kind (init_ok, echo_ok,
\* generate_ok) panics in every state: nothing is printed for it and the
\* msg_id counter keeps its value.
C5_UnexpectedFatal ==
    [][Handles({"InitOk", "EchoOk", "GenerateOk"}) =>
            /\ pc' = "panicked"
            /\ panic' = Some("Unexpected message type")
            /\ stdout' = stdout
            /\ msg_id' = msg_id]_vars

\* The node panicked on a reply-only message after init and a generate.
C5_Witness ==
    /\ pc = "panicked"
    /\ panic = Some("Unexpected message type")
    /\ Last(received).body.payload.type \in {"InitOk", "EchoOk", "GenerateOk"}
    /\ Ready
    /\ rng # None
    /\ msg_id = 3

C7_InitTransition ==
    /\ [](Pending({"Init"})
            => \E request \in Decoded : ENABLED InitArm(request))
    /\ [][(Handles({"Init"}) /\ ~Ready) =>
            /\ my_node_id' = Some(Last(received').body.payload.node_id)
            /\ Ready'
            /\ Emits
            /\ LastPrinted.body.payload = Payload_InitOk
            /\ pc' = "read"]_vars

\* The first init was answered.
C7_Witness ==
    /\ Len(stdout) = 2
    /\ PrintedType(1) = "EchoOk"
    /\ PrintedType(2) = "InitOk"
    /\ my_node_id = Some(received[2].body.payload.node_id)

\* C8: once set, my_node_id and the recorded number of nodes never change.
C8_SetOnce ==
    [][Ready => my_node_id' = my_node_id /\ num_nodes' = num_nodes]_vars

\* The index of the node's own identifier.
SelfIndex == EntityIdIndex(Unwrap(my_node_id))

\* Bits 31-30 of a u64.
NodeField(id) == id \cap {30, 31}

\* C9: bits 31-30 of every generated id are the node's index modulo 4.
C9_NodeBits ==
    [][(Handles({"Generate"}) /\ Ready) =>
            NodeField(LastPrinted.body.payload.id)
                = Shl(BitsOf(SelfIndex % 4), 30)]_vars

\* C10: in the Ready state a generate is answered with a generate_ok whose
\* bits 63-32 are the clock reading truncated to 32 bits, and my_node_id
\* keeps its value.
C10_ClockBits ==
    /\ []((Pending({"Generate"}) /\ Ready)
            => \E request \in Decoded : ENABLED GenerateArm(request))
    /\ [][(Handles({"Generate"}) /\ Ready) =>
            /\ Emits
            /\ LET printed == LastPrinted.body.payload
               IN  /\ printed.type = "GenerateOk"
                   /\ Shr(printed.id, 32) = now' \cap Mask_FFFFFFFF
            /\ my_node_id' = my_node_id]_vars

\* A generate was answered when the clock reading did not fit in 32 bits and
\* the random value had bit 31 set.
C10_Witness ==
    /\ Len(stdout) >= 2
    /\ PrintedType(Len(stdout)) = "GenerateOk"
    /\ 35 \in now
    /\ 31 \in Printed(Len(stdout)).body.payload.id
    /\ Shr(Printed(Len(stdout)).body.payload.id, 32) = {0, 3}

\* C16: the counter is 1 plus the number of replies printed so far, so the
\* k-th printed reply carries msg_id k; a panic leaves the counter alone.
C16_CounterCountsReplies ==
    /\ msg_id = 1 + Len(stdout)
    /\ \A k \in 1..Len(stdout) : PrintedMsgId(k) = Some(k)

\* Two replies were printed and the third message ended in a panic.
C16_Witness ==
    /\ pc = "panicked"
    /\ Len(stdout) = 2
    /\ msg_id = 3
    /\ Printed(1).body.msg_id = Some(1)
    /\ Printed(2).body.msg_id = Some(2)

\* C17: a line that does not decode panics: nothing is printed for it, it
\* is not dispatched, and no step follows the panic.
C17_DecodeErrorFatal ==
    [][/\ (pc = "dispatch" /\ Decoded = {}) =>
            /\ pc' = "panicked"
            /\ panic' = Some("called Result::unwrap() on an Err value")
            /\ stdout' = stdout
            /\ received' = received
            /\ msg_id' = msg_id
       /\ panic # None => UNCHANGED vars]_vars

\* After one reply, a line with an unknown tag ended in a panic.
C17_Witness ==
    /\ panic = Some("called Result::unwrap() on an Err value")
    /\ buffer.syntax = "json"
    /\ HasKey(buffer.value, "body")
    /\ buffer.value.body.type = "read"
    /\ lines_read = 2
    /\ Len(stdout) = 1
    /\ Len(received) = 1

\* C19: the generator, once seeded, carries the index of the node's current
\* identity as its seed (and is unseeded while the node has no identity).
C19_SeedIsSelfIndex ==
    rng # None =>
        /\ Ready
        /\ Unwrap(rng).seed = EntityIdIntoU64(Unwrap(my_node_id))

\* A decoded message waits to be dispatched.
AnyArmEnabled(request) ==
    ENABLED (\/ InitArm(request)
             \/ EchoArm(request)
             \/ GenerateArm(request)
             \/ GeneratePanic(request)
             \/ UnexpectedArm(request))

\* C20: a decoded message is dispatched whatever its dest, and the src of the
\* printed reply is that dest; so the reply of a Ready node carries the
\* node's own identity as src exactly when the request was addressed to it.
C20_DestNotChecked ==
    /\ [](\A request \in Decoded : AnyArmEnabled(request))
    /\ [][Emits =>
            LET printed_src == EntityIdFromStr(Last(stdout').value.src).val
                request == Last(received')
            IN  /\ printed_src = request.dest
                /\ Ready' =>
                      (printed_src = Unwrap(my_node_id')
                          <=> request.dest = Unwrap(my_node_id'))]_vars

\* A node that is n1 answered a request addressed to n2, as n2.
C20_Witness ==
    /\ Len(stdout) = 2
    /\ my_node_id = Some(Node(1))
    /\ received[1].body.payload.type = "Init"
    /\ received[2].dest = Node(2)
    /\ Printed(2).src = Node(2)

\* The grammar of identifier text: c or n, then one or more decimal digits.
MatchesGrammar(text) ==
    /\ Len(text) >= 2
    /\ text[1] \in {"c", "n"}
    /\ \A i \in 2..Len(text) : IsDigit(text[i])

IsJsonString(value) ==
    /\ DOMAIN value = {"text", "escapes"}
    /\ value.escapes \in BOOLEAN

\* A body object with one of the four tags, that tag's fields beside it, and
\* msg_id and in_reply_to each present or absent.
WellFormedBody(object) ==
    /\ HasKey(object, "type")
    /\ object["type"] \in {"init", "init_ok", "echo", "echo_ok"}
    /\ object["type"] = "init" =>
            /\ HasKey(object, "node_id") /\ MatchesGrammar(object["node_id"])
            /\ HasKey(object, "node_ids")
            /\ \A i \in 1..Len(object["node_ids"]) :
                    MatchesGrammar(object["node_ids"][i])
    /\ object["type"] \in {"echo", "echo_ok"} =>
            HasKey(object, "echo") /\ IsJsonString(object["echo"])
    /\ HasKey(object, "msg_id") => object["msg_id"] \in Nat
    /\ HasKey(object, "in_reply_to") => object["in_reply_to"] \in Nat

WellFormed(text) ==
    /\ text.syntax = "json"
    /\ HasKey(text.value, "src") /\ MatchesGrammar(text.value["src"])
    /\ HasKey(text.value, "dest") /\ MatchesGrammar(text.value["dest"])
    /\ HasKey(text.value, "body") /\ WellFormedBody(text.value["body"])

\* C15: every well-formed line with tag init, init_ok, echo or echo_ok that is
\* waiting to be dispatched decodes, whether or not it carries a msg_id or an
\* in_reply_to.
C15_WellFormedDecodes ==
    (pc = "dispatch" /\ WellFormed(buffer)) => Decoded # {}

\* C18: when no read fails, the loop eventually stops, in a panic on some
\* line or at the end of input; the step taken at the end of input prints
\* nothing and reads nothing; and after a normal exit the number of replies
\* printed is the number of lines received, none of them having panicked.
C18_EndOfInput ==
    /\ ([](pc # "failed") => <>(pc \in {"exited", "panicked"}))
    /\ [][(pc = "read" /\ pc' = "exited") =>
            /\ stdout' = stdout
            /\ lines_read' = lines_read
            /\ msg_id' = msg_id
            /\ panic' = None]_vars
    /\ [](pc = "exited" =>
            /\ Len(stdout) = lines_read
            /\ Len(received) = lines_read
            /\ panic = None)

\* The input ended after two lines, both answered.
C18_Witness ==
    /\ pc = "exited"
    /\ lines_read = 2
    /\ Len(stdout) = 2
    /\ panic = None

\* C11: two runs whose first generate finds them with the same numeric index
\* and the same clock reading produce the same first id.
C11_DeterminismPerSeed ==
    \A x, y \in NodeNames :
        LET first_x == nodes[x].generated
            first_y == nodes[y].generated
        IN  (/\ Len(first_x) >= 1
             /\ Len(first_y) >= 1
             /\ EntityIdIndex(first_x[1].node_id)
                  = EntityIdIndex(first_y[1].node_id)
             /\ first_x[1].now = first_y[1].now)
            => first_x[1].id = first_y[1].id

\* Both runs were initialised as n6 and generated a first id at the same
\* clock reading.
C11_Witness ==
    /\ Len(nodes["a"].generated) >= 1
    /\ Len(nodes["b"].generated) >= 1
    /\ nodes["a"].generated[1].node_id = Node(6)
    /\ nodes["b"].generated[1].node_id = Node(6)
    /\ nodes["a"].generated[1].now = nodes["b"].generated[1].now
    /\ nodes["a"].generated[1].id = nodes["b"].generated[1].id
    /\ nodes["a"].num_nodes = 1

\* C12: two ids that one run generates under the same identity at the same
\* clock reading differ whenever the two random values differ.
C12_CollideOnlyOnRepeat ==
    \A name \in NodeNames :
        LET generated == nodes[name].generated
        IN  \A k, l \in 1..Len(generated) :
                (/\ k < l
                 /\ generated[k].now = generated[l].now
                 /\ generated[k].node_id = generated[l].node_id
                 /\ generated[k].random_part # generated[l].random_part)
                => generated[k].id # generated[l].id

\* C13: parsing the text Display writes for an identifier gives back the
\* identifier, variant and index.
C13_RoundTrip ==
    (codec.entity # None /\ codec.parsed # None)
        => Unwrap(codec.parsed) = Ok(Unwrap(codec.entity))

\* The client with a three-digit index was written as c107 and parsed back.
C13_Witness ==
    /\ codec.entity = Some(Client(107))
    /\ codec.formatted = Some(<<"c", "1", "0", "7">>)
    /\ codec.parsed = Some(Ok(Client(107)))

\* C14: parsing a text that does not match the grammar returns an error.
C14_RejectsOutsideGrammar ==
    (/\ codec.text # None
     /\ codec.parsed # None
     /\ ~MatchesGrammar(Unwrap(codec.text)))
        => ~Unwrap(codec.parsed).ok
====
